---- MODULE Spec2Model ----
(***************************************************************************)
(* Wattwise: the background power simulator (simulator/meter_simulator.js) *)
(* and its configuration (simulator/config.js).                            *)
(*                                                                         *)
(* Units.  All quantities are exact integers:                              *)
(*   power of an appliance, baseline ........ watts                        *)
(*   seasonal multiplier .................... tenths      (1.3  -> 13)     *)
(*   time-pattern multiplier ................ twentieths  (0.05 -> 1)      *)
(*   noise factor ........................... fortieths   (0.95 -> 38)     *)
(*   totalActivePower ....................... 1/8000 W    (10 * 20 * 40)   *)
(*   probabilities, Math.random() values .... 1/100000                     *)
(*   anomaly multipliers .................... tenths      (2.5  -> 25)     *)
(*   reading.voltage ........................ millivolts                   *)
(*   reading.global_active_power ............ 1/100000 kW (= 0.01 W)       *)
(*   reading.global_reactive_power .......... 1/10000 kW                   *)
(*   reading.global_intensity ............... 1/10000 A                    *)
(*   energy_kwh (cumulative) ................ 1/(8000 * 60000) kWh         *)
(*   reading.energy_kwh ..................... 1/10000 kWh                  *)
(* A Date is the number of minutes since 2024-01-01 00:00 (a Monday) in    *)
(* the zone in which its getters (getMonth, getDay, getHours, getMinutes)  *)
(* read it.                                                                *)
(***************************************************************************)
EXTENDS Integers, Sequences, FiniteSets, TLC

(***************************************************************************)
(* Bounds of the model.                                                    *)
(***************************************************************************)
MaxDuration == 7

WideDuration == 1

MultiDuration == 2

(***************************************************************************)
(* simulator/config.js                                                     *)
(***************************************************************************)
baseConsumption ==
  [ normal |->
      [ baseline |-> 120,
        appliances |->
          [ refrigerator        |-> [power |-> 120, cycle |-> 30, dutyCycle |-> 7],
            led_lights          |-> [power |-> 8,   probability |-> 400],
            electronics_standby |-> [power |-> 20,  probability |-> 600],
            wifi_router         |-> [power |-> 6,   alwaysOn |-> TRUE],
            fan                 |-> [power |-> 60,  probability |-> 500] ] ],
    high |->
      [ baseline |-> 180,
        appliances |->
          [ refrigerator        |-> [power |-> 150, cycle |-> 25, dutyCycle |-> 8],
            led_lights          |-> [power |-> 12,  probability |-> 600],
            electronics_standby |-> [power |-> 35,  probability |-> 800],
            wifi_router         |-> [power |-> 8,   alwaysOn |-> TRUE],
            fan                 |-> [power |-> 75,  probability |-> 700] ] ],
    low |->
      [ baseline |-> 80,
        appliances |->
          [ refrigerator        |-> [power |-> 100, cycle |-> 35, dutyCycle |-> 6],
            led_lights          |-> [power |-> 6,   probability |-> 200],
            electronics_standby |-> [power |-> 12,  probability |-> 400],
            wifi_router         |-> [power |-> 5,   alwaysOn |-> TRUE],
            fan                 |-> [power |-> 50,  probability |-> 300] ] ],
    vacation |->
      [ baseline |-> 40,
        appliances |->
          [ refrigerator        |-> [power |-> 120, cycle |-> 30, dutyCycle |-> 7],
            led_lights          |-> [power |-> 0,   probability |-> 0],
            electronics_standby |-> [power |-> 8,   probability |-> 200],
            wifi_router         |-> [power |-> 6,   alwaysOn |-> TRUE],
            fan                 |-> [power |-> 0,   probability |-> 0] ] ] ]

timePatterns ==
  [ weekday |-> << 4, 3, 2, 1, 1, 2,
                   8, 14, 16, 12, 10, 8,
                   10, 12, 10, 8, 10, 14,
                   18, 20, 18, 14, 10, 6 >>,
    weekend |-> << 4, 3, 2, 1, 1, 2,
                   6, 8, 10, 12, 14, 16,
                   18, 20, 18, 16, 18, 20,
                   18, 16, 14, 12, 8, 6 >> ]

\* The occasional appliances the model carries (a subset of the ten of the
\* configuration: the three that startOccasionalAppliances names, and the
\* shortest-running one).
occasionalAppliances ==
  [ microwave       |-> [power |-> 1000, duration |-> 5,  probability |-> 15],
    air_conditioner |-> [power |-> 1200, duration |-> 20, probability |-> 20],
    space_heater    |-> [power |-> 1200, duration |-> 30, probability |-> 30],
    water_heater    |-> [power |-> 3000, duration |-> 15, probability |-> 20] ]

seasonalMultipliers ==
  [ spring |-> 10, summer |-> 13, monsoon |-> 11, winter |-> 14 ]

electrical ==
  [ baseVoltage |-> 230, voltageVariation |-> 8, powerFactor |-> 92, frequency |-> 50 ]

anomalies ==
  [ probability |-> 150,
    types |->
      [ powerSurge   |-> [multiplier |-> 25, duration |-> 2],
        brownout     |-> [multiplier |-> 3,  duration |-> 3],
        voltageSpike |-> [voltageMultiplier |-> 13, duration |-> 1],
        outage       |-> [multiplier |-> 0,  duration |-> 5],
        voltageDip   |-> [voltageMultiplier |-> 7, duration |-> 2] ] ]

\* Object.keys(config.anomalies.types), in insertion order
anomalyTypes ==
  << "powerSurge", "brownout", "voltageSpike", "outage", "voltageDip" >>

simulation ==
  [ sampleInterval |-> 60, maxSamplesPerBatch |-> 1440 ]

\* module.exports of config.js as require('./config.js') first returns it
Config ==
  [ baseConsumption      |-> baseConsumption,
    timePatterns         |-> timePatterns,
    occasionalAppliances |-> occasionalAppliances,
    seasonalMultipliers  |-> seasonalMultipliers,
    electrical           |-> electrical,
    anomalies            |-> anomalies,
    simulation           |-> simulation ]

VARIABLE
  config              \* the object `config` that every simulator of the process shares

(***************************************************************************)
(* Helpers                                                                 *)
(***************************************************************************)
RECURSIVE SumOver(_, _)
\* sum of f[x] over the finite set S (the accumulating forEach loops)
SumOver(S, f) ==
  IF S = {} THEN 0
  ELSE LET x == CHOOSE y \in S : TRUE
       IN  f[x] + SumOver(S \ {x}, f)

\* Number.prototype.toFixed on a non-negative ratio: round half up
RoundDiv(n, d) == (2 * n + d) \div (2 * d)

Max(a, b) == IF a >= b THEN a ELSE b

\* a property that is present and not undefined
Has(obj, field) == field \in DOMAIN obj

(***************************************************************************)
(* Date getters                                                            *)
(***************************************************************************)
MonthStart == << 0, 31, 60, 91, 121, 152, 182, 213, 244, 274, 305, 335 >>

getMinutes(date) == date % 60

getHours(date) == (date \div 60) % 24

getDay(date) == ((date \div 1440) + 1) % 7

getMonth(date) ==
  LET dayOfYear == (date \div 1440) % 366
  IN  Cardinality({ m \in 1..12 : MonthStart[m] <= dayOfYear }) - 1

\* new Date(y2024, month, day, hour, minute) as a Date of the model
DateOf(month, day, hour, minute) ==
  (MonthStart[month + 1] + (day - 1)) * 1440 + hour * 60 + minute

(***************************************************************************)
(* class PowerConsumptionSimulator: the pure parts                         *)
(***************************************************************************)
\* getSeasonalMultiplier with the season boundaries one month late
getSeasonalMultiplierLate(date) ==
  LET month == getMonth(date)
  IN  IF month >= 2 /\ month <= 4 THEN config.seasonalMultipliers.spring
      ELSE IF month >= 5 /\ month <= 7 THEN config.seasonalMultipliers.summer
      ELSE IF month >= 8 /\ month <= 10 THEN config.seasonalMultipliers.monsoon
      ELSE config.seasonalMultipliers.winter

getSeasonalMultiplier(date) ==
  LET month == getMonth(date)
  IN  IF month >= 1 /\ month <= 3 THEN config.seasonalMultipliers.spring
      ELSE IF month >= 4 /\ month <= 6 THEN config.seasonalMultipliers.summer
      ELSE IF month >= 7 /\ month <= 9 THEN config.seasonalMultipliers.monsoon
      ELSE config.seasonalMultipliers.winter

getTimePatternMultiplier(date) ==
  LET hour      == getHours(date)
      dayOfWeek == getDay(date)
      isWeekend == dayOfWeek = 0 \/ dayOfWeek = 6
  IN  IF isWeekend THEN config.timePatterns.weekend[hour + 1]
      ELSE config.timePatterns.weekday[hour + 1]

generateBaseLoad(baseConfig) ==
  LET apps     == baseConfig.appliances
      alwaysOn == { n \in DOMAIN apps : Has(apps[n], "alwaysOn") /\ apps[n].alwaysOn }
  IN  baseConfig.baseline + SumOver(alwaysOn, [n \in alwaysOn |-> apps[n].power])

\* cyclePosition < dutyCycle, with cyclePosition = (minutes % cycle) / cycle
CycleOn(appliance, date) ==
  (getMinutes(date) % appliance.cycle) * 10 < appliance.dutyCycle * appliance.cycle

generateCyclicalLoad(baseConfig, date) ==
  LET apps == baseConfig.appliances
      on   == { n \in DOMAIN apps :
                  /\ Has(apps[n], "cycle")
                  /\ apps[n].cycle # 0
                  /\ CycleOn(apps[n], date) }
  IN  SumOver(on, [n \in on |-> apps[n].power])

\* the appliances for which generateProbabilisticLoad calls Math.random()
Probabilistic(baseConfig) ==
  LET apps == baseConfig.appliances
  IN  { n \in DOMAIN apps :
          /\ Has(apps[n], "probability")
          /\ apps[n].probability # 0
          /\ ~ (Has(apps[n], "alwaysOn") /\ apps[n].alwaysOn)
          /\ ~ (Has(apps[n], "cycle") /\ apps[n].cycle # 0) }

generateProbabilisticLoad(baseConfig, timeMultiplier, random) ==
  LET apps == baseConfig.appliances
      on   == { n \in Probabilistic(baseConfig) :
                  random[n] < apps[n].probability * timeMultiplier * 5 }
  IN  SumOver(on, [n \in on |-> apps[n].power])

\* adjustedProbability with the heater boost running into February
adjustedProbabilityLongWinter(name, date, timeMultiplier) ==
  LET hour  == getHours(date)
      month == getMonth(date)
      p0    == config.occasionalAppliances[name].probability * timeMultiplier * 5
      p1    == IF name = "water_heater"
                  /\ ((hour >= 6 /\ hour <= 9) \/ (hour >= 18 /\ hour <= 21))
               THEN p0 * 2 ELSE p0
      p2    == IF name = "air_conditioner" /\ month >= 4 /\ month <= 6
               THEN p1 * 3 ELSE p1
      p3    == IF name = "space_heater" /\ (month >= 10 \/ month <= 1)
               THEN p2 * 4 ELSE p2
  IN  p3

\* adjustedProbability of startOccasionalAppliances, in 1/100000
adjustedProbability(name, date, timeMultiplier) ==
  LET hour  == getHours(date)
      month == getMonth(date)
      p0    == config.occasionalAppliances[name].probability * timeMultiplier * 5
      p1    == IF name = "water_heater"
                  /\ ((hour >= 6 /\ hour <= 9) \/ (hour >= 18 /\ hour <= 21))
               THEN p0 * 2 ELSE p0
      p2    == IF name = "air_conditioner" /\ month >= 4 /\ month <= 6
               THEN p1 * 3 ELSE p1
      p3    == IF name = "space_heater" /\ (month >= 10 \/ month <= 0)
               THEN p2 * 4 ELSE p2
  IN  p3

\* Starts without the test that the appliance is not running already
StartsAgain(active, name, date, timeMultiplier, random) ==
  random[name] < adjustedProbability(name, date, timeMultiplier)

\* the value of `Math.random() < adjustedProbability && !activeAppliances.has(name)`
Starts(active, name, date, timeMultiplier, random) ==
  /\ random[name] < adjustedProbability(name, date, timeMultiplier)
  /\ name \notin DOMAIN active

startOccasionalAppliances(active, date, timeMultiplier, random) ==
  LET started == { n \in DOMAIN config.occasionalAppliances :
                     Starts(active, n, date, timeMultiplier, random) }
  IN  [ n \in DOMAIN active \cup started |->
          IF n \in started
          THEN [ power   |-> config.occasionalAppliances[n].power,
                 endTime |-> date + config.occasionalAppliances[n].duration ]
          ELSE active[n] ]

\* Finished with a strict comparison
FinishedLate(appliance, date) == date > appliance.endTime

\* the activations that updateActiveAppliances deletes
Finished(appliance, date) == date >= appliance.endTime

updateActiveAppliances(active, date) ==
  LET kept == { n \in DOMAIN active : ~ Finished(active[n], date) }
  IN  [ active     |-> [ n \in kept |-> active[n] ],
        activeLoad |-> SumOver(kept, [n \in kept |-> active[n].power]) ]

NullAnomaly == [ type |-> "null" ]

\* { ...config.anomalies.types[randomAnomaly], type: randomAnomaly }
AnomalyCopy(randomAnomaly) ==
  LET def == config.anomalies.types[randomAnomaly]
  IN  [ f \in DOMAIN def \cup {"type"} |->
          IF f = "type" THEN randomAnomaly ELSE def[f] ]

\* the anomaly table after `{ ...types[randomAnomaly], type: randomAnomaly }`
\* had been written without the spread: the type is stored into the table
TypesAfterAlias(types, randomAnomaly) ==
  [ types EXCEPT ![randomAnomaly] = @ @@ [ type |-> randomAnomaly ] ]

\* the anomaly table after `{ ...types[randomAnomaly], type: randomAnomaly }`:
\* the spread copies the entry into a new object and the entry stays as it was
TypesAfterCopy(types, randomAnomaly) == types

\* Counting that stops one tick early
CountingShort(anomalyRemaining) == anomalyRemaining > 1

\* the branch of checkAnomalies that counts an active anomaly down
Counting(anomalyRemaining) == anomalyRemaining > 0

\* checkAnomalies: the new fields and the returned anomaly
checkAnomalies(anomaly, anomalyRemaining, random) ==
  IF Counting(anomalyRemaining)
  THEN [ anomaly          |-> anomaly,
         anomalyRemaining |-> anomalyRemaining - 1,
         result           |-> anomaly,
         config           |-> config ]
  ELSE LET anomalyProbability == (config.anomalies.probability * 3) \div 2
       IN  IF random.anomaly < anomalyProbability
           THEN LET index == (random.type * Len(anomalyTypes)) \div 100000
                    copy  == AnomalyCopy(anomalyTypes[index + 1])
                IN  [ anomaly          |-> copy,
                      anomalyRemaining |-> copy.duration,
                      result           |-> copy,
                      config           |-> [ config EXCEPT !.anomalies.types =
                                               TypesAfterCopy(@, anomalyTypes[index + 1]) ] ]
           ELSE [ anomaly          |-> anomaly,
                  anomalyRemaining |-> anomalyRemaining,
                  result           |-> NullAnomaly,
                  config           |-> config ]

\* applyAnomaly scaling power and voltage alike by whichever multiplier the
\* anomaly has
applyAnomalyBoth(readings, anomaly) ==
  LET m == IF Has(anomaly, "multiplier") THEN anomaly.multiplier
           ELSE IF Has(anomaly, "voltageMultiplier") THEN anomaly.voltageMultiplier
           ELSE 10
  IN  [ readings EXCEPT !.global_active_power = (@ * m) \div 10,
                        !.voltage             = (@ * m) \div 10 ]

\* applyAnomaly testing the multipliers for truthiness instead of undefined
applyAnomalyTruthy(readings, anomaly) ==
  LET r1 == IF Has(anomaly, "multiplier") /\ anomaly.multiplier # 0
            THEN [ readings EXCEPT !.global_active_power =
                                     (@ * anomaly.multiplier) \div 10 ]
            ELSE readings
      r2 == IF Has(anomaly, "voltageMultiplier") /\ anomaly.voltageMultiplier # 0
            THEN [ r1 EXCEPT !.voltage = (@ * anomaly.voltageMultiplier) \div 10 ]
            ELSE r1
  IN  r2

applyAnomaly(readings, anomaly) ==
  LET r1 == IF Has(anomaly, "multiplier")
            THEN [ readings EXCEPT !.global_active_power =
                                     (@ * anomaly.multiplier) \div 10 ]
            ELSE readings
      r2 == IF Has(anomaly, "voltageMultiplier")
            THEN [ r1 EXCEPT !.voltage = (@ * anomaly.voltageMultiplier) \div 10 ]
            ELSE r1
  IN  r2

\* config.baseConsumption[profile] || config.baseConsumption.normal
BaseConfigOf(profile) ==
  IF profile \in DOMAIN config.baseConsumption
  THEN config.baseConsumption[profile]
  ELSE config.baseConsumption.normal

\* 1 + (Math.random() - 0.5) * 0.1, in fortieths
Noise(random) == 38 + random \div 25000

\* MinimumPower without the floor
MinimumPowerNone(totalActivePower, baseConfig) == totalActivePower

\* Math.max(totalActivePower, baseline * 0.5), in 1/8000 W
MinimumPower(totalActivePower, baseConfig) ==
  Max(totalActivePower, baseConfig.baseline * 4000)

\* baseVoltage * (1 + (Math.random() - 0.5) * voltageVariation * 1.2),
\* after toFixed(2), in centivolts
Voltage(random) ==
  LET span == config.electrical.baseVoltage * config.electrical.voltageVariation * 12
  IN  config.electrical.baseVoltage * 100 - span \div 20
        + RoundDiv((span \div 10) * random, 1000000)

\* Math.tan(Math.acos(powerFactor)) in ten-thousandths, for a power factor in
\* hundredths: sqrt(1 - pf^2) / pf
TanAcos ==
  [ pf \in 1..100 |->
      LET root == CHOOSE r \in 0..10000 :
                    /\ r * r <= (10000 - pf * pf) * 10000
                    /\ (r + 1) * (r + 1) > (10000 - pf * pf) * 10000
      IN  RoundDiv(root * 100, pf) ]

\* round(n * m / d) for 0 <= n and 0 < d, where n * m may not fit a machine
\* integer but (n % d) * m does
MulDiv(n, m, d) == (n \div d) * m + RoundDiv((n % d) * m, d)

\* round(n * m / (d1 * d2)) for 0 <= n, 0 < d1 and an even d2 > 0, where n * m
\* may not fit a machine integer but (n \div d1) * m and d1 * m do
ScaleDiv(n, m, d1, d2) ==
  ((n \div d1) * m + ((n % d1) * m) \div d1 + d2 \div 2) \div d2

\* totalActivePower * tan(acos(powerFactor)) / 1000 after toFixed(4), in
\* 0.0001 kW
ReactivePower(totalActivePower) ==
  ScaleDiv(totalActivePower, TanAcos[config.electrical.powerFactor], 8000, 1000)

\* totalActivePower / voltage after toFixed(4), in 0.0001 A, for the power in
\* 1/8000 W and the voltage in centivolts
Intensity(totalActivePower, voltage) == MulDiv(totalActivePower, 125, voltage)

(***************************************************************************)
(* generateMeterReading(timestamp) on the simulator `self`                 *)
(*   self   = [userId, profile, energy_kwh, activeAppliances, anomaly,     *)
(*             anomalyRemaining]                                           *)
(*   random = the values returned by the calls of Math.random():           *)
(*            random.occ[name], random.prob[name], random.noise,           *)
(*            random.volt, random.anomaly, random.type                     *)
(* The result holds the simulator after the call, the reading returned     *)
(* and the values of the locals.                                           *)
(***************************************************************************)
generateMeterReading(self, timestamp, random) ==
  LET baseConfig         == BaseConfigOf(self.profile)
      seasonalMultiplier == getSeasonalMultiplier(timestamp)
      timeMultiplier     == getTimePatternMultiplier(timestamp)
      started            == startOccasionalAppliances(self.activeAppliances, timestamp,
                                                      timeMultiplier, random.occ)
      baseLoad           == generateBaseLoad(baseConfig)
      cyclicalLoad       == generateCyclicalLoad(baseConfig, timestamp)
      probabilisticLoad  == generateProbabilisticLoad(baseConfig, timeMultiplier,
                                                      random.prob)
      updated            == updateActiveAppliances(started, timestamp)
      activeLoad         == updated.activeLoad
      noise              == Noise(random.noise)
      combined           == (baseLoad + cyclicalLoad + probabilisticLoad + activeLoad)
                              * seasonalMultiplier * timeMultiplier * noise
      totalActivePower   == MinimumPower(combined, baseConfig)
      voltage            == Voltage(random.volt)
      energy             == self.energy_kwh + totalActivePower
      plain              == [ user_id                 |-> self.userId,
                              timestamp               |-> timestamp,
                              voltage                 |-> voltage * 10,
                              global_active_power     |-> RoundDiv(totalActivePower, 800) * 10,
                              global_reactive_power   |-> ReactivePower(totalActivePower),
                              global_intensity        |-> Intensity(totalActivePower, voltage),
                              energy_kwh              |-> RoundDiv(energy, 48000),
                              sample_interval_seconds |-> config.simulation.sampleInterval ]
      checked            == checkAnomalies(self.anomaly, self.anomalyRemaining, random)
      anomaly            == checked.result
      readings           == IF anomaly # NullAnomaly
                            THEN applyAnomaly(plain, anomaly)
                                   @@ [ anomaly_type |-> anomaly.type ]
                            ELSE plain
  IN  [ self     |-> [ self EXCEPT !.energy_kwh       = energy,
                                   !.activeAppliances = updated.active,
                                   !.anomaly          = checked.anomaly,
                                   !.anomalyRemaining = checked.anomalyRemaining ],
        readings |-> readings,
        config   |-> checked.config,
        locals   |-> [ timestamp          |-> timestamp,
                       seasonalMultiplier |-> seasonalMultiplier,
                       timeMultiplier     |-> timeMultiplier,
                       adjusted           |-> [ n \in DOMAIN config.occasionalAppliances |->
                                                  adjustedProbability(n, timestamp,
                                                                      timeMultiplier) ],
                       started            |-> started,
                       cyclicalLoad       |-> cyclicalLoad,
                       activeLoad         |-> activeLoad,
                       totalActivePower   |-> totalActivePower,
                       plain              |-> plain,
                       anomaly            |-> anomaly ] ]

(***************************************************************************)
(* The values of Math.random() that the model draws                        *)
(***************************************************************************)
Lo == 0

Hi == 99999

\* nothing happens: no appliance starts, no anomaly, noise factor 1
Quiet ==
  [ occ     |-> [ n \in DOMAIN occasionalAppliances |-> Hi ],
    prob    |-> [ n \in DOMAIN baseConsumption.normal.appliances |-> Hi ],
    noise   |-> 50000,
    volt    |-> Hi,
    anomaly |-> Hi,
    type    |-> Lo ]

\* every appliance runs, noise factor 0.95, lowest voltage
Busy ==
  [ Quiet EXCEPT !.occ   = [ n \in DOMAIN occasionalAppliances |-> Lo ],
                 !.prob  = [ n \in DOMAIN baseConsumption.normal.appliances |-> Lo ],
                 !.noise = Lo,
                 !.volt  = Lo ]

RandomValues ==
  { Quiet, Busy }
    \cup { [ Quiet EXCEPT !.occ = [ @ EXCEPT ![n] = Lo ], !.noise = 75000 ] :
             n \in {"microwave"} }
    \cup { [ Quiet EXCEPT !.anomaly = Lo, !.type = k * 20000 ] : k \in 0..4 }

(***************************************************************************)
(* State                                                                   *)
(***************************************************************************)
VARIABLES
  profile,            \* this.profile            (per simulator, keyed by userId)
  energy_kwh,         \* this.energy_kwh
  activeAppliances,   \* this.activeAppliances: name -> [power, endTime]
  anomaly,            \* this.anomaly
  anomalyRemaining,   \* this.anomalyRemaining
  currentTime,        \* generateReadings: currentTime
  i,                  \* generateReadings: i
  count,              \* generateReadings: count
  reading,            \* generateReadings: the reading pushed last
  locals,             \* generateMeterReading: the locals of the last call
  anomalyTicks,       \* history: consecutive readings scaled since the last activation
  hostOffset,         \* the zone of the host: minutes east of UTC
  startInstant,       \* runSimulation: the instant (minutes since 2024-01-01T00:00Z)
                      \* of `new Date()`, or the one that --start-time names
  startFromNow,       \* params.startFromNow
  status              \* runSimulation: "running", or "rejected" once it has thrown

\* the backend (src/instructions.md); powers in watts (0.001 kW), energies in
\* watt-hours (0.001 kWh) as the DECIMAL(8,3) columns hold them
VARIABLES
  applianceStates,    \* table appliance_states: user_id -> appliance_id -> is_on
  powerState,         \* Redis power:state:{user_id}
  toggleRequest,      \* toggleAppliance: the call in progress for a user, its position
  toggles,            \* the number of calls of toggleAppliance accepted so far
  lastBackground,     \* history: the background power the last simulation tick wrote
  buffer,             \* the open buffer of power samples of a user
  windowStart,        \* the minute the open buffer of a user belongs to
  flushes,            \* the aggregates computed by flushes, with their attempts
  power_readings,     \* table power_readings, in insertion order
  forecasts,          \* the forecast points of the period, per user
  actuals,            \* the energy of the minute readings of the period, per user
  coverage,           \* whether enough minute readings of the period exist, per user
  scores,             \* the efficiency score recorded for a user, if any
  outcome,            \* what the last compare of a user returned
  leaderboard         \* Redis leaderboard:{period_type}:{period_identifier}, by rank

\* runSimulation (simulator/meter_simulator.js), per simulator
VARIABLES
  duration,           \* params.duration
  batchSize,          \* params.batchSize
  batch,              \* runSimulation: batch
  phase,              \* runSimulation: where the run stands
  runTime,            \* runSimulation: currentTime
  readings,           \* generateReadings: the array readings, by its length and the
                      \* energy_kwh of its first and last element
  sent,               \* the batches handed to sendToBackend, with their Total Energy
  timestamps,         \* history: the timestamps of all readings of the run
  cyclicalLoads       \* history: the cyclical load of every tick of the run

\* the state of the HTTP server of the backend (app.js, server.js)
VARIABLES
  request,            \* the requests received: method, url, authorization, body
  pc,                 \* where the handling of each request stands
  layer,              \* the layer of the app's stack a request is at
  decoded,            \* userAuth: the payload of the verified token
  responses,          \* history: the responses sent for each request, in order
  invoked,            \* history: the route handlers invoked for each request
  users_table,        \* the rows of the users table
  listening,          \* the HTTP server accepts new connections
  connections,        \* the open connections of the HTTP server
  clients,            \* the open clients of the database pool
  signal,             \* the signal the process has received, if any
  exited,             \* the process has exited
  log                 \* the lines logged by the signal handler

runVars == << duration, batchSize, batch, phase, runTime, readings, sent,
              timestamps, cyclicalLoads >>

simVars == << config, profile, energy_kwh, activeAppliances, anomaly, anomalyRemaining,
              currentTime, i, count, reading, locals, anomalyTicks,
              hostOffset, startInstant, startFromNow, status >>

powerVars == << applianceStates, powerState, toggleRequest, toggles, lastBackground >>

flushVars == << buffer, windowStart, flushes, power_readings >>

scoreVars == << forecasts, actuals, coverage, scores, outcome, leaderboard >>

httpVars == << request, pc, layer, decoded, responses, invoked, users_table >>

shutdownVars == << listening, connections, clients, signal, exited, log >>

serverVars == << httpVars, shutdownVars >>

vars == << simVars, runVars, powerVars, flushVars, scoreVars, serverVars >>

NoReading == [ timestamp |-> -1 ]

NoLocals == [ timestamp |-> -1 ]

NoReadings == [ length |-> 0, first |-> 0, last |-> 0 ]

Simulators == DOMAIN profile

\* the fields of simulator h as one object
SelfOf(h) ==
  [ userId           |-> h,
    profile          |-> profile[h],
    energy_kwh       |-> energy_kwh[h],
    activeAppliances |-> activeAppliances[h],
    anomaly          |-> anomaly[h],
    anomalyRemaining |-> anomalyRemaining[h] ]

\* SetField on a field that all instances share
SetFieldShared(field, h, value) == [ g \in DOMAIN field |-> value ]

\* this.<field> = value, on the instance h
SetField(field, h, value) == [ field EXCEPT ![h] = value ]

\* generateReadings is called on its own, not by runSimulation
NoRun ==
  /\ duration      = << >>
  /\ batchSize     = << >>
  /\ batch         = << >>
  /\ phase         = << >>
  /\ runTime       = << >>
  /\ readings      = << >>
  /\ sent          = << >>
  /\ timestamps    = << >>
  /\ cyclicalLoads = << >>

\* no user of the backend has been set up
NoPower ==
  /\ applianceStates = << >>
  /\ powerState      = << >>
  /\ toggleRequest   = << >>
  /\ toggles         = 0
  /\ lastBackground  = << >>

\* no buffer is open and nothing has been flushed
NoFlush ==
  /\ buffer         = << >>
  /\ windowStart    = << >>
  /\ flushes        = {}
  /\ power_readings = << >>

\* nothing has been compared or ranked
NoScore ==
  /\ forecasts   = << >>
  /\ actuals     = << >>
  /\ coverage    = << >>
  /\ scores      = << >>
  /\ outcome     = << >>
  /\ leaderboard = << >>

\* the backend serves no request and has not been started
NoServer ==
  /\ request     = << >>
  /\ pc          = << >>
  /\ layer       = << >>
  /\ decoded     = << >>
  /\ responses   = << >>
  /\ invoked     = << >>
  /\ users_table = {}
  /\ listening   = FALSE
  /\ connections = 0
  /\ clients     = 0
  /\ signal      = "none"
  /\ exited      = FALSE
  /\ log         = << >>

\* Nepal is UTC+5:45
NepalOffset == 5 * 60 + 45

\* new Date(NaN), as new Date(args[++i]) gives for a string that is no date
InvalidDate == -1

\* date.getTimezoneOffset(), in minutes
getTimezoneOffset == 0 - hostOffset

\* getNepalTime(date): the Date whose getters, on this host, read the wall
\* clock of Nepal at the instant of `date`
getNepalTime(date) ==
  IF date = InvalidDate THEN InvalidDate
  ELSE date + getTimezoneOffset + NepalOffset

\* the Date of an instant, as the getters of this host read it
DateAt(instant) ==
  IF instant = InvalidDate THEN InvalidDate ELSE instant + hostOffset

\* runSimulation: startTime = params.startFromNow ? simulator.getNepalTime()
\*                                                : params.startTime
StartTime(h) ==
  IF startFromNow[h] THEN getNepalTime(DateAt(startInstant[h]))
  ELSE DateAt(startInstant[h])

\* the host and the arguments of the runs
Process(offset, instants, fromNow) ==
  /\ hostOffset   = offset
  /\ startInstant = instants
  /\ startFromNow = fromNow

\* a host in Nepal's zone whose runs start from now, at the local times `start`
NepalHost(users, start) ==
  Process(NepalOffset, [ h \in users |-> start[h] - NepalOffset ],
          [ h \in users |-> TRUE ])

\* new PowerConsumptionSimulator(userId, profile) for every userId of `users`,
\* each about to run generateReadings(n, start[userId])
Construct(users, profiles, start, n) ==
  /\ config           = Config
  /\ profile          = profiles
  /\ energy_kwh       = [ h \in users |-> 0 ]
  /\ activeAppliances = [ h \in users |-> << >> ]
  /\ anomaly          = [ h \in users |-> NullAnomaly ]
  /\ anomalyRemaining = [ h \in users |-> 0 ]
  /\ currentTime      = start
  /\ i                = [ h \in users |-> 0 ]
  /\ count            = [ h \in users |-> n ]
  /\ reading          = [ h \in users |-> NoReading ]
  /\ locals           = [ h \in users |-> NoLocals ]
  /\ anomalyTicks     = [ h \in users |-> 0 ]
  /\ status           = [ h \in users |-> "running" ]

\* one iteration of the loop of generateReadings for simulator h, with the
\* values `random` of Math.random()
TickWith(h, random) ==
  /\ status[h] = "running"
  /\ i[h] < count[h]
  /\ currentTime[h] # InvalidDate
  /\ \E res \in { generateMeterReading(SelfOf(h), currentTime[h], random) } :
           /\ config'           = res.config
           /\ energy_kwh'       = SetField(energy_kwh, h, res.self.energy_kwh)
           /\ activeAppliances' = SetField(activeAppliances, h, res.self.activeAppliances)
           /\ anomaly'          = SetField(anomaly, h, res.self.anomaly)
           /\ anomalyRemaining' = SetField(anomalyRemaining, h, res.self.anomalyRemaining)
           /\ reading'          = [ reading EXCEPT ![h] = res.readings ]
           /\ locals'           = [ locals EXCEPT ![h] = res.locals ]
           /\ anomalyTicks'     = [ anomalyTicks EXCEPT ![h] =
                                      IF res.locals.anomaly = NullAnomaly THEN 0
                                      ELSE IF anomalyRemaining[h] > 0 THEN @ + 1
                                      ELSE 1 ]
  /\ currentTime' = [ currentTime EXCEPT ![h] = @ + config.simulation.sampleInterval \div 60 ]
  /\ i'           = [ i EXCEPT ![h] = @ + 1 ]
  /\ UNCHANGED << profile, count, hostOffset, startInstant, startFromNow, status >>
  /\ UNCHANGED << powerVars, flushVars, scoreVars, serverVars >>

\* one iteration of the loop of generateReadings for simulator h
Tick(h) ==
  /\ \E random \in RandomValues : TickWith(h, random)
  /\ UNCHANGED runVars

Next == \E h \in Simulators : Tick(h)

\* one simulator, a long run
Init ==
  \E c \in { << "normal", DateOf(5, 12, 19, 57) >>, << "vacation", DateOf(0, 6, 7, 18) >> } :
    /\ NepalHost({"h1"}, [ h \in {"h1"} |-> c[2] ])
    /\ NoRun /\ NoPower /\ NoFlush /\ NoScore /\ NoServer
    /\ Construct({"h1"}, [ h \in {"h1"} |-> c[1] ], [ h \in {"h1"} |-> StartTime(h) ],
                 MaxDuration)

Spec == Init /\ [][Next]_vars

\* one simulator, one reading, for every profile, month and day type
WideProfiles == { "normal", "high", "low", "vacation", "unknown" }

WideStarts ==
  { DateOf(month, day, hour, 55) : month \in 0..11, day \in {6, 9}, hour \in {3, 8, 19} }

InitWide ==
  \E p \in WideProfiles, t \in WideStarts :
    /\ NepalHost({"h1"}, [ h \in {"h1"} |-> t ])
    /\ NoRun /\ NoPower /\ NoFlush /\ NoScore /\ NoServer
    /\ Construct({"h1"}, [ h \in {"h1"} |-> p ], [ h \in {"h1"} |-> StartTime(h) ],
                 WideDuration)

SpecWide == InitWide /\ [][Next]_vars

\* two simulators whose ticks interleave
InitMulti ==
  /\ NepalHost({"h1", "h2"}, [ h \in {"h1", "h2"} |-> DateOf(5, 12, 19, 57) ])
  /\ NoRun /\ NoPower /\ NoFlush /\ NoScore /\ NoServer
  /\ Construct({"h1", "h2"},
               [ h \in {"h1", "h2"} |-> IF h = "h1" THEN "normal" ELSE "low" ],
               [ h \in {"h1", "h2"} |-> StartTime(h) ],
               MultiDuration)

SpecMulti == InitMulti /\ [][Next]_vars

\* runSimulation throws: the Date it starts from is invalid, toISOString()
\* raises a RangeError in the batch loop, outside the try, and the promise of
\* runSimulation is rejected and logged by .catch(console.error)
Throw(h) ==
  /\ status[h] = "running"
  /\ i[h] < count[h]
  /\ currentTime[h] = InvalidDate
  /\ status' = [ status EXCEPT ![h] = "rejected" ]
  /\ UNCHANGED << config, profile, energy_kwh, activeAppliances, anomaly,
                  anomalyRemaining, currentTime, i, count, reading, locals,
                  anomalyTicks, hostOffset, startInstant, startFromNow >>
  /\ UNCHANGED << runVars, powerVars, flushVars, scoreVars, serverVars >>

NextStart ==
  \/ \E h \in Simulators : Tick(h)
  \/ \E h \in Simulators : Throw(h)

\* the hosts and the instants of the runs of SpecStart
StartOffsets == { 0, NepalOffset, 0 - 300, 540 }

StartInstants == { DateOf(0, 15, 0, 0), DateOf(5, 30, 20, 30), InvalidDate }

\* one simulator on hosts of several zones, started from now or from --start-time
InitStart ==
  \E offset \in StartOffsets, instant \in StartInstants, fromNow \in BOOLEAN :
    /\ fromNow => instant # InvalidDate
    /\ Process(offset, [ h \in {"h1"} |-> instant ], [ h \in {"h1"} |-> fromNow ])
    /\ NoRun /\ NoPower /\ NoFlush /\ NoScore /\ NoServer
    /\ Construct({"h1"}, [ h \in {"h1"} |-> "normal" ], [ h \in {"h1"} |-> StartTime(h) ],
                 WideDuration)

SpecStart == InitStart /\ [][NextStart]_vars

(***************************************************************************)
(* runSimulation: the run in batches                                       *)
(***************************************************************************)
MaxRunDuration == 4

MaxBatchSize == 3

CycleDuration == 72

Min(a, b) == IF a <= b THEN a ELSE b

\* Math.ceil(n / d) for positive d
Ceil(n, d) == (n + d - 1) \div d

\* totalBatches rounded down instead of up
totalBatchesFloor(h) == duration[h] \div batchSize[h]

\* totalBatches = Math.ceil(params.duration / params.batchSize)
totalBatches(h) == Ceil(duration[h], batchSize[h])

\* samplesInThisBatch = Math.min(batchSize, duration - batch * batchSize)
samplesInThisBatch(h) ==
  Min(batchSize[h], duration[h] - batch[h] * batchSize[h])

\* NextBatchTime that stays at the start of the batch
NextBatchTimeSame(time, samples) == time

\* new Date(currentTime.getTime() + samplesInThisBatch * 60000), in minutes
NextBatchTime(time, samples) == time + (samples * 60000) \div 60000

\* readings.push(reading), on the summary of the array
Push(array, r) ==
  [ length |-> array.length + 1,
    first  |-> IF array.length = 0 THEN r.energy_kwh ELSE array.first,
    last   |-> r.energy_kwh ]

\* "Total Energy": readings[readings.length-1].energy_kwh - readings[0].energy_kwh
TotalEnergy(array) == array.last - array.first

\* runSimulation up to the batch loop, for the simulators already constructed
RunSetup(d, b) ==
  /\ duration      = [ h \in Simulators |-> d ]
  /\ batchSize     = [ h \in Simulators |-> b ]
  /\ batch         = [ h \in Simulators |-> 0 ]
  /\ phase         = [ h \in Simulators |-> "loop" ]
  /\ runTime       = [ h \in Simulators |-> StartTime(h) ]
  /\ readings      = [ h \in Simulators |-> NoReadings ]
  /\ sent          = [ h \in Simulators |-> << >> ]
  /\ timestamps    = [ h \in Simulators |-> << >> ]
  /\ cyclicalLoads = [ h \in Simulators |-> << >> ]

\* a batch begins: generateReadings(samplesInThisBatch, currentTime) is called
BatchStart(h) ==
  /\ phase[h] = "loop"
  /\ batch[h] < totalBatches(h)
  /\ runTime[h] # InvalidDate
  /\ phase'       = [ phase EXCEPT ![h] = "generating" ]
  /\ i'           = [ i EXCEPT ![h] = 0 ]
  /\ count'       = [ count EXCEPT ![h] = samplesInThisBatch(h) ]
  /\ currentTime' = [ currentTime EXCEPT ![h] = runTime[h] ]
  /\ readings'    = [ readings EXCEPT ![h] = NoReadings ]
  /\ UNCHANGED << config, profile, energy_kwh, activeAppliances, anomaly,
                  anomalyRemaining, reading, locals, anomalyTicks, hostOffset,
                  startInstant, startFromNow, status >>
  /\ UNCHANGED << duration, batchSize, batch, runTime, sent, timestamps, cyclicalLoads >>
  /\ UNCHANGED << powerVars, flushVars, scoreVars, serverVars >>

\* one iteration of the loop of generateReadings inside a batch
RunTick(h, random) ==
  /\ phase[h] = "generating"
  /\ TickWith(h, random)
  /\ readings'      = [ readings EXCEPT ![h] = Push(@, reading'[h]) ]
  /\ timestamps'    = [ timestamps EXCEPT ![h] = Append(@, reading'[h].timestamp) ]
  /\ cyclicalLoads' = [ cyclicalLoads EXCEPT ![h] = Append(@, locals'[h].cyclicalLoad) ]
  /\ UNCHANGED << duration, batchSize, batch, phase, runTime, sent >>

\* generateReadings returns: currentTime advances by the batch and the
\* readings are handed to sendToBackend, which logs their summary
SendToBackend(h) ==
  /\ phase[h] = "generating"
  /\ i[h] = count[h]
  /\ runTime' = [ runTime EXCEPT ![h] = NextBatchTime(@, samplesInThisBatch(h)) ]
  /\ sent'    = [ sent EXCEPT ![h] =
                    Append(@, [ length      |-> readings[h].length,
                                totalEnergy |-> TotalEnergy(readings[h]) ]) ]
  /\ batch'   = [ batch EXCEPT ![h] = @ + 1 ]
  /\ phase'   = [ phase EXCEPT ![h] = "loop" ]
  /\ UNCHANGED << simVars, duration, batchSize, readings, timestamps, cyclicalLoads >>
  /\ UNCHANGED << powerVars, flushVars, scoreVars, serverVars >>

\* the batch loop ends: "Simulation completed!"
Complete(h) ==
  /\ phase[h] = "loop"
  /\ batch[h] >= totalBatches(h)
  /\ phase' = [ phase EXCEPT ![h] = "completed" ]
  /\ UNCHANGED << simVars, duration, batchSize, batch, runTime, readings, sent,
                  timestamps, cyclicalLoads >>
  /\ UNCHANGED << powerVars, flushVars, scoreVars, serverVars >>

\* the values of Math.random() drawn in the runs in batches
RunRandomValues == { Quiet, Busy }

NextRun ==
  \/ \E h \in Simulators : BatchStart(h)
  \/ \E h \in Simulators, random \in RunRandomValues : RunTick(h, random)
  \/ \E h \in Simulators : SendToBackend(h)
  \/ \E h \in Simulators : Complete(h)

\* runs of every duration and batch size up to the bounds
InitRun ==
  \E d \in 1..MaxRunDuration, b \in 1..MaxBatchSize :
    /\ NepalHost({"h1"}, [ h \in {"h1"} |-> DateOf(5, 12, 19, 57) ])
    /\ NoPower /\ NoFlush /\ NoScore /\ NoServer
    /\ Construct({"h1"}, [ h \in {"h1"} |-> "normal" ], [ h \in {"h1"} |-> StartTime(h) ], 0)
    /\ RunSetup(d, b)

SpecRun == InitRun /\ [][NextRun]_vars

\* the run goes on as long as it can: neither the loop of generateReadings
\* (LoopStep: its next iteration) nor the loop of runSimulation waits for
\* anything that may never come
LoopStep(h) ==
  /\ phase[h] = "generating"
  /\ i[h] < count[h]
  /\ i' = [ i EXCEPT ![h] = @ + 1 ]

SpecRunFair ==
  /\ SpecRun
  /\ WF_i(\E h \in Simulators : LoopStep(h))
  /\ WF_vars(\E h \in Simulators : BatchStart(h) \/ SendToBackend(h) \/ Complete(h))

\* a long quiet run in two batches, for every profile
NextCycle ==
  \/ \E h \in Simulators : BatchStart(h)
  \/ \E h \in Simulators : RunTick(h, Quiet)
  \/ \E h \in Simulators : SendToBackend(h)
  \/ \E h \in Simulators : Complete(h)

InitCycle ==
  \E p \in { "normal", "high", "low", "vacation" } :
    /\ NepalHost({"h1"}, [ h \in {"h1"} |-> DateOf(0, 6, 7, 18) ])
    /\ NoPower /\ NoFlush /\ NoScore /\ NoServer
    /\ Construct({"h1"}, [ h \in {"h1"} |-> p ], [ h \in {"h1"} |-> StartTime(h) ], 0)
    /\ RunSetup(CycleDuration, 60)

SpecCycle == InitCycle /\ [][NextCycle]_vars

(***************************************************************************)
(* The backend: appliances and the real-time power state                   *)
(* (src/instructions.md, Step 2.5 and Step 4.3)                            *)
(***************************************************************************)
MaxToggles == 3

\* backend/src/config/appliances.js: the catalog, two of its entries
appliances ==
  [ tv        |-> [ power_rating_watts |-> 150 ],
    microwave |-> [ power_rating_watts |-> 1000 ] ]

\* the users of the backend
Users == { "u1", "u2" }

\* the background power, in watts, that a simulation tick may write
BackgroundValues == { 800, 1200 }

\* the value of power:state:{user_id} before anything has been written
NoPowerState ==
  [ background_power_kw |-> 0, interactive_power_kw |-> 0, total_power_kw |-> 0 ]

\* no call of toggleAppliance is in progress
NoRequest == [ step |-> "none" ]

\* initializeUserAppliances(user_id): is_on = false for each appliance
initializeUserAppliances == [ a \in DOMAIN appliances |-> FALSE ]

\* getActiveAppliances(user_id): the appliances that are ON
getActiveAppliances(u) == { a \in DOMAIN applianceStates[u] : applianceStates[u][a] }

\* calculateInteractivePower(user_id): the sum of the ratings of the active
\* appliances
calculateInteractivePower(u) ==
  SumOver(getActiveAppliances(u), [ a \in DOMAIN appliances |-> appliances[a].power_rating_watts ])

\* toggleAppliance step 4: + power_rating if turning ON, - power_rating if OFF
PowerChange(appliance_id, is_on) ==
  IF is_on THEN appliances[appliance_id].power_rating_watts
  ELSE 0 - appliances[appliance_id].power_rating_watts

\* RecalculateTotal that leaves the total as it was
RecalculateTotalStale(state) == state

\* "Recalculate total_power_kw (background + interactive)"
RecalculateTotal(state) ==
  [ state EXCEPT !.total_power_kw = state.background_power_kw + state.interactive_power_kw ]

\* the backend with the users `users`, each with its appliances off
PowerSetup(users) ==
  /\ applianceStates = [ u \in users |-> initializeUserAppliances ]
  /\ powerState      = [ u \in users |-> NoPowerState ]
  /\ toggleRequest   = [ u \in users |-> NoRequest ]
  /\ toggles         = 0
  /\ lastBackground  = [ u \in users |-> 0 ]

\* toggleAppliance steps 1-4: the appliance exists, the table is updated and
\* the power change is calculated
ToggleAppliance(u, appliance_id, is_on) ==
  /\ toggles < MaxToggles
  /\ toggleRequest[u] = NoRequest
  /\ appliance_id \in DOMAIN applianceStates[u]
  /\ applianceStates' = [ applianceStates EXCEPT ![u][appliance_id] = is_on ]
  /\ toggleRequest'   = [ toggleRequest EXCEPT ![u] =
                            [ step |-> "get", powerChange |-> PowerChange(appliance_id, is_on) ] ]
  /\ toggles'         = toggles + 1
  /\ UNCHANGED << powerState, lastBackground, simVars, runVars, flushVars, scoreVars, serverVars >>

\* toggleAppliance step 5, "Get current interactive_power_kw": the value of
\* power:state:{user_id} is read
ToggleGet(u) ==
  /\ toggleRequest[u].step = "get"
  /\ toggleRequest' = [ toggleRequest EXCEPT ![u] =
                          [ step |-> "set", powerChange |-> @.powerChange,
                            current |-> powerState[u] ] ]
  /\ UNCHANGED << applianceStates, powerState, toggles, lastBackground,
                  simVars, runVars, flushVars, scoreVars, serverVars >>

\* toggleAppliance step 5, the rest: the power change is added to the value
\* read, the total recalculated and the value written back; steps 6-8 change
\* nothing that the model holds
ToggleSet(u) ==
  /\ toggleRequest[u].step = "set"
  /\ powerState' = [ powerState EXCEPT ![u] =
                       RecalculateTotal([ toggleRequest[u].current EXCEPT
                                            !.interactive_power_kw =
                                              @ + toggleRequest[u].powerChange ]) ]
  /\ toggleRequest' = [ toggleRequest EXCEPT ![u] = NoRequest ]
  /\ UNCHANGED << applianceStates, toggles, lastBackground,
                  simVars, runVars, flushVars, scoreVars, serverVars >>

\* the simulation tick of a user: background_kw is written and total_kw
\* recomputed, in one atomic read-modify-write
SimulationTick(u, background) ==
  /\ powerState' = [ powerState EXCEPT ![u] =
                       RecalculateTotal([ @ EXCEPT !.background_power_kw = background ]) ]
  /\ lastBackground' = [ lastBackground EXCEPT ![u] = background ]
  /\ UNCHANGED << applianceStates, toggleRequest, toggles, simVars, runVars, flushVars, scoreVars, serverVars >>

NextPower ==
  \/ \E u \in DOMAIN powerState, a \in DOMAIN appliances, on \in BOOLEAN :
       ToggleAppliance(u, a, on)
  \/ \E u \in DOMAIN powerState : ToggleGet(u)
  \/ \E u \in DOMAIN powerState : ToggleSet(u)
  \/ \E u \in DOMAIN powerState, background \in BackgroundValues :
       SimulationTick(u, background)

\* no simulator runs in the process of the backend
NoSimulator ==
  /\ Process(0, << >>, << >>)
  /\ NoRun
  /\ Construct({}, << >>, << >>, 0)

InitPower == NoSimulator /\ PowerSetup(Users) /\ NoFlush /\ NoScore /\ NoServer

SpecPower == InitPower /\ [][NextPower]_vars

(***************************************************************************)
(* The backend: the minute buffer and table power_readings                 *)
(* (src/instructions.md, Step 2.2 and Step 2.5; spec.md 4.4)               *)
(***************************************************************************)
MaxSamples == 2

MaxWindows == 2

MaxAttempts == 2

\* the power, in watts, of the samples that are buffered
SampleValues == { 1000, 2000 }

\* the outcomes of one attempt to persist an aggregate
PersistResults == { "stored", "stored, acknowledgement lost", "failed" }

\* the sum of the power of the samples of a buffer
SumOfSamples(samples) ==
  SumOver(DOMAIN samples, [ k \in DOMAIN samples |-> samples[k].power_kw ])

\* the row of power_readings for the window of a buffer: the average power of
\* its uniformly spaced samples and the energy of one minute at that power,
\* both to the three decimals of the columns
Aggregate(user_id, window_start, samples) ==
  [ user_id        |-> user_id,
    timestamp      |-> window_start,
    total_power_kw |-> RoundDiv(SumOfSamples(samples), Len(samples)),
    kwh            |-> RoundDiv(SumOfSamples(samples), Len(samples) * 60) ]

\* the rows of a table that have the user and the window of `row`
SameKey(table, row) ==
  { k \in DOMAIN table :
      table[k].user_id = row.user_id /\ table[k].timestamp = row.timestamp }

\* Upsert that stores a new row whatever the table holds
UpsertAsInsert(table, row) == Append(table, row)

\* the idempotent upsert on (household_id, window_start)
Upsert(table, row) ==
  IF SameKey(table, row) = {} THEN Append(table, row)
  ELSE [ k \in DOMAIN table |-> IF k \in SameKey(table, row) THEN row ELSE table[k] ]

\* the buffers of the users `users`, open on window 0, and an empty table
FlushSetup(users) ==
  /\ buffer         = [ u \in users |-> << >> ]
  /\ windowStart    = [ u \in users |-> 0 ]
  /\ flushes        = {}
  /\ power_readings = << >>

\* a power sample is appended to the open buffer of a user
Sample(u, power_kw) ==
  /\ Len(buffer[u]) < MaxSamples
  /\ buffer' = [ buffer EXCEPT ![u] = Append(@, [ power_kw |-> power_kw ]) ]
  /\ UNCHANGED << windowStart, flushes, power_readings, simVars, runVars, powerVars, scoreVars, serverVars >>

\* the window of a user closes: the buffer is swapped for an empty one and
\* its aggregate is computed and handed to persistence
Flush(u) ==
  /\ windowStart[u] < MaxWindows
  /\ buffer[u] # << >>
  /\ flushes' = flushes \cup
                  { [ aggregate    |-> Aggregate(u, windowStart[u], buffer[u]),
                      attempts     |-> 0,
                      stored       |-> 0,
                      acknowledged |-> FALSE ] }
  /\ buffer'      = [ buffer EXCEPT ![u] = << >> ]
  /\ windowStart' = [ windowStart EXCEPT ![u] = @ + 1 ]
  /\ UNCHANGED << power_readings, simVars, runVars, powerVars, scoreVars, serverVars >>

\* one attempt to persist an aggregate that is not yet known to be stored;
\* an attempt that fails, or whose acknowledgement is lost, is retried
Persist(f, result) ==
  /\ f \in flushes
  /\ ~f.acknowledged
  /\ f.attempts < MaxAttempts
  /\ power_readings' = IF result = "failed" THEN power_readings
                       ELSE Upsert(power_readings, f.aggregate)
  /\ flushes' = (flushes \ {f}) \cup
                  { [ f EXCEPT !.attempts     = @ + 1,
                               !.stored       = IF result = "failed" THEN @ ELSE @ + 1,
                               !.acknowledged = (result = "stored") ] }
  /\ UNCHANGED << buffer, windowStart, simVars, runVars, powerVars, scoreVars, serverVars >>

NextFlush ==
  \/ \E u \in DOMAIN buffer, power_kw \in SampleValues : Sample(u, power_kw)
  \/ \E u \in DOMAIN buffer : Flush(u)
  \/ \E f \in flushes, result \in PersistResults : Persist(f, result)

\* the users whose buffers are flushed
FlushUsers == { "u1" }

InitFlush == NoSimulator /\ NoPower /\ FlushSetup(FlushUsers) /\ NoScore /\ NoServer

SpecFlush == InitFlush /\ [][NextFlush]_vars

(***************************************************************************)
(* The backend: efficiency scores and the leaderboard                      *)
(* (src/instructions.md, Step 2.2 and Step 2.5; spec.md 4.5)               *)
(* Energies of a period are in kWh; a score is the exact ratio num / den,  *)
(* in percent.                                                             *)
(***************************************************************************)
\* the users of the leaderboard, in the order of their ids
ScoreUsers == << "u1", "u2", "u3" >>

\* the forecast points that may cover the period of a user: none, or points of
\* 0, 50 or 100 kWh in all
ForecastInputs == { << >>, << 0 >>, << 50 >>, << 50, 50 >> }

\* the energy, in kWh, that the minute readings of the period may sum to
ActualValues == { 40, 80, 85, 120 }

\* the forecast points of a period, summed
ForecastKwh(points) == SumOver(DOMAIN points, points)

\* Score for the energy above the forecast instead of below it
ScoreOfExcess(forecast_kwh, actual_kwh) ==
  [ num |-> (actual_kwh - forecast_kwh) * 100, den |-> forecast_kwh ]

\* score = (forecast_kwh - actual_kwh) / forecast_kwh * 100
Score(forecast_kwh, actual_kwh) ==
  [ num |-> (forecast_kwh - actual_kwh) * 100, den |-> forecast_kwh ]

\* no score is recorded for a user
NoScoreRow ==
  [ recorded |-> FALSE, forecast_kwh |-> 0, actual_kwh |-> 0,
    score |-> [ num |-> 0, den |-> 1 ] ]

\* compare(household_id, period) on the forecast points, the actual energy
\* and the coverage of the period
compare(points, actual_kwh, covered) ==
  IF points = << >> \/ ForecastKwh(points) = 0 \/ ~covered
  THEN [ status |-> "InsufficientData", row |-> NoScoreRow ]
  ELSE [ status |-> "ok",
         row    |-> [ recorded     |-> TRUE,
                      forecast_kwh |-> ForecastKwh(points),
                      actual_kwh   |-> actual_kwh,
                      score        |-> Score(ForecastKwh(points), actual_kwh) ] ]

\* the position of a user id in the lexicographic order of the ids
IdOrder(u) == CHOOSE k \in DOMAIN ScoreUsers : ScoreUsers[k] = u

\* the order of the sorted set of the leaderboard: by the score of the set,
\* which is the negative of the efficiency score, then by member
ZsetBefore(rows, v, u) ==
  \/ (0 - rows[v].score.num) * rows[u].score.den
       < (0 - rows[u].score.num) * rows[v].score.den
  \/ /\ rows[v].score.num * rows[u].score.den = rows[u].score.num * rows[v].score.den
     /\ IdOrder(v) < IdOrder(u)

\* the leaderboard of the recorded scores: its entries by rank
rank(rows) ==
  LET members  == { u \in DOMAIN rows : rows[u].recorded }
      position == [ u \in members |->
                      1 + Cardinality({ v \in members : ZsetBefore(rows, v, u) }) ]
  IN  [ k \in 1..Cardinality(members) |->
          LET u == CHOOSE m \in members : position[m] = k
          IN  [ user_id       |-> u,
                score         |-> rows[u].score,
                actual_kwh    |-> rows[u].actual_kwh,
                rank_position |-> k ] ]

\* the period of the users of ScoreUsers with its forecasts and readings
ScoreSetup(points, energy, covered) ==
  /\ forecasts   = points
  /\ actuals     = energy
  /\ coverage    = covered
  /\ scores      = [ u \in DOMAIN points |-> NoScoreRow ]
  /\ outcome     = [ u \in DOMAIN points |-> "not compared" ]
  /\ leaderboard = << >>

\* compare for one user: the score is recorded unless compare fails
Compare(u) ==
  /\ outcome' = [ outcome EXCEPT ![u] = compare(forecasts[u], actuals[u], coverage[u]).status ]
  /\ scores'  = [ scores EXCEPT ![u] =
                    IF compare(forecasts[u], actuals[u], coverage[u]).status = "ok"
                    THEN compare(forecasts[u], actuals[u], coverage[u]).row
                    ELSE @ ]
  /\ UNCHANGED << forecasts, actuals, coverage, leaderboard, simVars, runVars, powerVars, flushVars, serverVars >>

\* the leaderboard of the period is recomputed from the recorded scores
Rank ==
  /\ leaderboard' = rank(scores)
  /\ UNCHANGED << forecasts, actuals, coverage, scores, outcome, simVars, runVars, powerVars, flushVars, serverVars >>

NextScore ==
  \/ \E u \in DOMAIN scores : Compare(u)
  \/ Rank

\* the users of ScoreUsers, as a set
ScoreUserSet == { ScoreUsers[k] : k \in DOMAIN ScoreUsers }

InitScore ==
  /\ NoSimulator /\ NoPower /\ NoFlush /\ NoServer
  /\ \E points \in [ ScoreUserSet -> ForecastInputs ],
        energy \in [ ScoreUserSet -> ActualValues ],
        uncovered \in SUBSET { ScoreUsers[Len(ScoreUsers)] } :
       ScoreSetup(points, energy, [ u \in ScoreUserSet |-> u \notin uncovered ])

SpecScore == InitScore /\ [][NextScore]_vars

(***************************************************************************)
(* The backend: the Express app, the routes of authentication              *)
(*                                                                         *)
(* A url is the sequence of its path segments.  A handler that awaits a    *)
(* query of the database is one action up to the await and one action from *)
(* the result on; a query reads or writes the users table at the moment    *)
(* its result is delivered, and no query fails for want of a connection.   *)
(***************************************************************************)
MaxRequests == 2

Requests == 1..MaxRequests

\* process.env.JWT_SECRET
JWT_SECRET == "JWT_SECRET"

\* jwt.sign({ id }, process.env.JWT_SECRET, { expiresIn })
generateToken(id) == [ id |-> id, secret |-> JWT_SECRET, expired |-> FALSE ]

\* the tokens a client may present: of user 1, of a user that is in no row,
\* signed with another secret, expired
Tokens ==
  { generateToken(1), generateToken(0),
    [ id |-> 1, secret |-> "other", expired |-> FALSE ],
    [ id |-> 1, secret |-> JWT_SECRET, expired |-> TRUE ] }

\* jwt.decode(token): the payload, whatever the signature
jwtDecode(token, secret) == [ thrown |-> FALSE, id |-> token.id ]

\* jwt.verify(token, secret): the payload, or throws for another signature
\* or an expired token
jwtVerify(token, secret) ==
  IF token.secret = secret /\ ~token.expired
  THEN [ thrown |-> FALSE, id |-> token.id ]
  ELSE [ thrown |-> TRUE ]

\* req.headers.authorization: absent, or the words of the header
NoAuthorization == [ scheme |-> "undefined" ]

Authorizations ==
  { NoAuthorization, [ scheme |-> "Bearer" ],
    [ scheme |-> "Basic", token |-> generateToken(1) ] }
  \cup { [ scheme |-> "Bearer", token |-> t ] : t \in Tokens }

Emails == { "a@wattwise", "b@wattwise" }

NoHttpRequest == [ method |-> "none" ]

\* the requests that match a route of routes/auth.js, as the router sees them
RouterRequests ==
  { [ method |-> "GET", url |-> << "me" >>, authorization |-> a ] :
      a \in Authorizations }
  \cup { [ method |-> "POST", url |-> << "register" >>,
           authorization |-> NoAuthorization, body |-> [ email |-> e ] ] :
           e \in Emails }

\* the paths requests to the app are made to
AppUrls ==
  { << "api", "routes", "me" >>, << "api", "routes", "register" >>,
    << "api", "auth", "me" >>, << "health" >> }

\* the requests the app receives
AppRequests ==
  UNION { { [ q EXCEPT !.url = u ] :
              u \in { v \in AppUrls : v[Len(v)] \in { q.url[1], "health" } } } :
          q \in RouterRequests }

\* res.status(status).json({ error }) or res.json(...), sent by a handler
Response(code, by, error) == [ status |-> code, by |-> by, error |-> error ]

\* the stack of the app, in the order of its app.use calls
AppStack ==
  << [ name |-> "cors" ],
     [ name |-> "express.json" ],
     [ name |-> "express.urlencoded" ],
     [ name |-> "morgan" ],
     [ name |-> "router", path |-> << "api", "routes" >>, router |-> "authRoutes" ],
     [ name |-> "router", path |-> << "api", "meter" >>, router |-> "meterRoutes" ],
     [ name |-> "router", path |-> << "api", "forecast" >>, router |-> "forecastRoutes" ],
     [ name |-> "router", path |-> << "api", "bills" >>, router |-> "billRoutes" ],
     [ name |-> "notFound" ],
     [ name |-> "errorHandler" ] >>

\* url starts with the mount path
Mounted(path, url) ==
  /\ Len(url) >= Len(path)
  /\ SubSeq(url, 1, Len(path)) = path

\* what a layer of the stack does with a request that carries no error.
\* app.use(cors) installs the factory of the cors package as the middleware:
\* called with (req, res, next) it takes req for its options, returns a new
\* middleware and neither calls next nor writes to res
Handle(l, q) ==
  CASE l.name = "cors" -> [ kind |-> "pending" ]
    [] l.name \in { "express.json", "express.urlencoded", "morgan" } ->
         [ kind |-> "next" ]
    [] l.name = "router" ->
         IF Mounted(l.path, q.url)
         THEN [ kind |-> "route", router |-> l.router,
                url |-> SubSeq(q.url, Len(l.path) + 1, Len(q.url)) ]
         ELSE [ kind |-> "next" ]
    [] l.name = "notFound" ->
         [ kind |-> "respond", response |-> Response(404, "notFound", "route not found") ]
    [] l.name = "errorHandler" -> [ kind |-> "next" ]

\* the server hands a request to the app
Receive(r) ==
  /\ pc[r] = "none"
  /\ \E q \in AppRequests : request' = [ request EXCEPT ![r] = q ]
  /\ pc' = [ pc EXCEPT ![r] = "app" ]
  /\ layer' = [ layer EXCEPT ![r] = 1 ]
  /\ UNCHANGED << decoded, responses, invoked, users_table, shutdownVars >>
  /\ UNCHANGED << simVars, runVars, powerVars, flushVars, scoreVars >>

\* the app calls the layer a request is at
AppStep(r) ==
  /\ pc[r] = "app"
  /\ layer[r] <= Len(AppStack)
  /\ LET out == Handle(AppStack[layer[r]], request[r])
     IN  /\ pc' = [ pc EXCEPT ![r] =
                      CASE out.kind = "pending" -> "pending"
                        [] out.kind = "next"    -> "app"
                        [] out.kind = "route"   -> out.router
                        [] out.kind = "respond" -> "done" ]
         /\ layer' = [ layer EXCEPT ![r] = IF out.kind = "next" THEN @ + 1 ELSE @ ]
         /\ request' = [ request EXCEPT ![r] =
                           IF out.kind = "route" THEN [ @ EXCEPT !.url = out.url ] ELSE @ ]
         /\ responses' = [ responses EXCEPT ![r] =
                             IF out.kind = "respond" THEN Append(@, out.response) ELSE @ ]
  /\ UNCHANGED << decoded, invoked, users_table, shutdownVars >>
  /\ UNCHANGED << simVars, runVars, powerVars, flushVars, scoreVars >>

NextApp == \E r \in Requests : Receive(r) \/ AppStep(r)

\* no request is under way
ServerSetup(rows) ==
  /\ request     = [ r \in Requests |-> NoHttpRequest ]
  /\ pc          = [ r \in Requests |-> "none" ]
  /\ layer       = [ r \in Requests |-> 0 ]
  /\ decoded     = [ r \in Requests |-> [ thrown |-> TRUE ] ]
  /\ responses   = [ r \in Requests |-> << >> ]
  /\ invoked     = [ r \in Requests |-> {} ]
  /\ users_table = rows
  /\ listening   = TRUE
  /\ connections = 0
  /\ clients     = 0
  /\ signal      = "none"
  /\ exited      = FALSE
  /\ log         = << >>

\* the users table before the requests: empty, or with the row of user 1
InitialRows == { {}, { [ id |-> 1, email |-> "a@wattwise" ] } }

InitApp ==
  /\ NoSimulator /\ NoPower /\ NoFlush /\ NoScore
  /\ \E rows \in InitialRows : ServerSetup(rows)

SpecApp == InitApp /\ [][NextApp]_vars

\* the app goes on with every request it can go on with
SpecAppFair == SpecApp /\ WF_vars(\E r \in Requests : AppStep(r))

\* --- routes/auth.js: the router, called with a request that matches a route

\* the router is handed a request
Deliver(r) ==
  /\ pc[r] = "none"
  /\ \E q \in RouterRequests : request' = [ request EXCEPT ![r] = q ]
  /\ pc' = [ pc EXCEPT ![r] = "authRoutes" ]
  /\ UNCHANGED << layer, decoded, responses, invoked, users_table, shutdownVars >>
  /\ UNCHANGED << simVars, runVars, powerVars, flushVars, scoreVars >>

\* router.<method>(path, ...): the route of the router a request matches
Matches(q, method, path) == q.method = method /\ q.url = << path >>

\* res.status(...).json(...), which ends the handling of the request
Respond(r, response) ==
  /\ responses' = [ responses EXCEPT ![r] = Append(@, response) ]
  /\ pc' = [ pc EXCEPT ![r] = "done" ]

\* the token userAuth reads from the header, if any
BearerToken(a) ==
  IF a.scheme = "Bearer" /\ Has(a, "token") THEN << a.token >> ELSE << >>

\* userAuth, up to await User.findById(decoded.id)
userAuth(r) ==
  /\ pc[r] = "authRoutes"
  /\ Matches(request[r], "GET", "me")
  /\ LET token == BearerToken(request[r].authorization)
     IN  IF token = << >>
         THEN /\ Respond(r, Response(401, "userAuth", "Not authorized, no token"))
              /\ UNCHANGED decoded
         ELSE LET payload == jwtVerify(token[1], JWT_SECRET)
              IN  IF payload.thrown
                  THEN /\ Respond(r, Response(401, "userAuth", "Not authorized, token failed"))
                       /\ UNCHANGED decoded
                  ELSE /\ decoded' = [ decoded EXCEPT ![r] = payload ]
                       /\ pc' = [ pc EXCEPT ![r] = "userAuth.findById" ]
                       /\ UNCHANGED responses
  /\ UNCHANGED << request, layer, invoked, users_table, shutdownVars >>
  /\ UNCHANGED << simVars, runVars, powerVars, flushVars, scoreVars >>

\* User.findById(id): the rows with this id
findById(id) == { u \in users_table : u.id = id }

\* User.findByEmail(email): the rows with this email
findByEmail(email) == { u \in users_table : u.email = email }

\* userAuth from the result of User.findById on; next() calls getMe, which
\* answers with req.user
userAuthFound(r) ==
  /\ pc[r] = "userAuth.findById"
  /\ IF findById(decoded[r].id) = {}
     THEN /\ Respond(r, Response(401, "userAuth", "User not found"))
          /\ UNCHANGED invoked
     ELSE /\ invoked' = [ invoked EXCEPT ![r] = @ \cup { "getMe" } ]
          /\ Respond(r, Response(200, "getMe", ""))
  /\ UNCHANGED << request, layer, decoded, users_table, shutdownVars >>
  /\ UNCHANGED << simVars, runVars, powerVars, flushVars, scoreVars >>

\* register, up to await User.findByEmail(email)
register(r) ==
  /\ pc[r] = "authRoutes"
  /\ Matches(request[r], "POST", "register")
  /\ invoked' = [ invoked EXCEPT ![r] = @ \cup { "register" } ]
  /\ pc' = [ pc EXCEPT ![r] = "register.findByEmail" ]
  /\ UNCHANGED << request, layer, decoded, responses, users_table, shutdownVars >>
  /\ UNCHANGED << simVars, runVars, powerVars, flushVars, scoreVars >>

\* register from the result of User.findByEmail on, up to await User.create
registerFound(r) ==
  /\ pc[r] = "register.findByEmail"
  /\ IF findByEmail(request[r].body.email) # {}
     THEN Respond(r, Response(400, "register", "user already exists"))
     ELSE /\ pc' = [ pc EXCEPT ![r] = "register.create" ]
          /\ UNCHANGED responses
  /\ UNCHANGED << request, layer, decoded, invoked, users_table, shutdownVars >>
  /\ UNCHANGED << simVars, runVars, powerVars, flushVars, scoreVars >>

\* the id of the next row, for gen_random_uuid()
NewId == Cardinality(users_table) + 1

\* register from User.create on: the insert breaks the unique index on email
\* when a row with this email is there, and create throws
registerCreated(r) ==
  /\ pc[r] = "register.create"
  /\ IF findByEmail(request[r].body.email) # {}
     THEN /\ Respond(r, Response(500, "register", "Server error during registration"))
          /\ UNCHANGED users_table
     ELSE /\ users_table' = users_table
                              \cup { [ id |-> NewId, email |-> request[r].body.email ] }
          /\ Respond(r, [ status |-> 201, by |-> "register", error |-> "",
                          token |-> generateToken(NewId) ])
  /\ UNCHANGED << request, layer, decoded, invoked, shutdownVars >>
  /\ UNCHANGED << simVars, runVars, powerVars, flushVars, scoreVars >>

NextAuth ==
  \E r \in Requests :
    \/ Deliver(r)
    \/ userAuth(r)
    \/ userAuthFound(r)
    \/ register(r)
    \/ registerFound(r)
    \/ registerCreated(r)

InitAuth ==
  /\ NoSimulator /\ NoPower /\ NoFlush /\ NoScore
  /\ \E rows \in InitialRows : ServerSetup(rows)

SpecAuth == InitAuth /\ [][NextAuth]_vars

(***************************************************************************)
(* The backend: the process of server.js, its signals and the pool         *)
(***************************************************************************)
MaxConnections == 6

MaxClients == 4

\* a client opens a connection to the listening server
Connect ==
  /\ ~exited
  /\ listening
  /\ connections < MaxConnections
  /\ connections' = connections + 1
  /\ UNCHANGED << listening, clients, signal, exited, log, httpVars >>
  /\ UNCHANGED << simVars, runVars, powerVars, flushVars, scoreVars >>

\* a client ends its connection
Disconnect ==
  /\ ~exited
  /\ connections > 0
  /\ connections' = connections - 1
  /\ UNCHANGED << listening, clients, signal, exited, log, httpVars >>
  /\ UNCHANGED << simVars, runVars, powerVars, flushVars, scoreVars >>

\* pool.query for a request on an open connection, when no client of the
\* pool is idle: the pool opens one more client
Query ==
  /\ ~exited
  /\ connections > 0
  /\ clients < MaxClients
  /\ clients' = clients + 1
  /\ UNCHANGED << listening, connections, signal, exited, log, httpVars >>
  /\ UNCHANGED << simVars, runVars, powerVars, flushVars, scoreVars >>

\* idleTimeoutMillis: the pool closes a client that has been idle
IdleTimeout ==
  /\ ~exited
  /\ clients > 0
  /\ clients' = clients - 1
  /\ UNCHANGED << listening, connections, signal, exited, log, httpVars >>
  /\ UNCHANGED << simVars, runVars, powerVars, flushVars, scoreVars >>

\* process.on('SIGTERM', ...): the handler logs and calls server.close, which
\* stops the server from accepting connections
Sigterm ==
  /\ ~exited
  /\ signal = "none"
  /\ signal' = "SIGTERM"
  /\ log' = Append(log, "SIGTERM signal recieved: closing HTTP server")
  /\ listening' = FALSE
  /\ UNCHANGED << connections, clients, exited, httpVars >>
  /\ UNCHANGED << simVars, runVars, powerVars, flushVars, scoreVars >>

\* the callback of server.close, once the last connection has ended
Closed ==
  /\ ~exited
  /\ signal = "SIGTERM"
  /\ connections = 0
  /\ Len(log) = 1
  /\ log' = Append(log, "HTTP server closed")
  /\ UNCHANGED << listening, connections, clients, signal, exited, httpVars >>
  /\ UNCHANGED << simVars, runVars, powerVars, flushVars, scoreVars >>

\* SIGINT has no handler: the process is ended at once, with whatever is open
Sigint ==
  /\ ~exited
  /\ signal = "none"
  /\ signal' = "SIGINT"
  /\ exited' = TRUE
  /\ UNCHANGED << listening, connections, clients, log, httpVars >>
  /\ UNCHANGED << simVars, runVars, powerVars, flushVars, scoreVars >>

\* the process ends by itself when nothing keeps its event loop alive: no
\* listening server, no connection, no client of the pool, no callback due
Exit ==
  /\ ~exited
  /\ ~listening
  /\ connections = 0
  /\ clients = 0
  /\ Len(log) = 2
  /\ exited' = TRUE
  /\ UNCHANGED << listening, connections, clients, signal, log, httpVars >>
  /\ UNCHANGED << simVars, runVars, powerVars, flushVars, scoreVars >>

NextShutdown ==
  \/ Connect
  \/ Disconnect
  \/ Query
  \/ IdleTimeout
  \/ Sigterm
  \/ Closed
  \/ Sigint
  \/ Exit

\* server.listen: the server accepts connections, the pool has no client yet
InitShutdown ==
  /\ NoSimulator /\ NoPower /\ NoFlush /\ NoScore
  /\ request     = << >>
  /\ pc          = << >>
  /\ layer       = << >>
  /\ decoded     = << >>
  /\ responses   = << >>
  /\ invoked     = << >>
  /\ users_table = {}
  /\ listening   = TRUE
  /\ connections = 0
  /\ clients     = 0
  /\ signal      = "none"
  /\ exited      = FALSE
  /\ log         = << >>

SpecShutdown == InitShutdown /\ [][NextShutdown]_vars

\* the process takes the steps that are its own to take; when clients end
\* their connections is up to them
SpecShutdownFair == SpecShutdown /\ WF_vars(Closed \/ IdleTimeout \/ Exit)

(***************************************************************************)
(* Properties                                                              *)
(***************************************************************************)
\* simulator h has returned at least one reading
Ticked(h) == i[h] > 0

\* the configured duration of the anomaly held in this.anomaly (0 for null)
DurationOf(a) == IF Has(a, "duration") THEN a.duration ELSE 0

\* an anomaly that lowers the active power (multiplier below 1)
Reducing(a) == Has(a, "multiplier") /\ a.multiplier < 10

\* baseline * 0.5 of the profile of h, in the unit of reading.global_active_power
FloorOf(h) == BaseConfigOf(profile[h]).baseline * 50

\* C1: an anomaly of configured duration d scales exactly d consecutive
\* readings, the one of the activating tick included: the number of
\* consecutive readings scaled since an activation never exceeds d.
C1_ScalesExactlyDuration ==
  \A h \in Simulators :
    anomalyTicks[h] > 0 => anomalyTicks[h] <= DurationOf(anomaly[h])

\* C2: the anomaly sub-process is a two-state machine.  While anomalyRemaining
\* is positive a tick decrements it by exactly 1 and keeps the anomaly; an
\* activation (the counter rising, or the anomaly changing) happens only on a
\* tick that starts with anomalyRemaining = 0; the counter stays between 0 and
\* the configured duration of the current kind.
C2_AnomalyMachine ==
  /\ [](\A h \in Simulators :
          anomalyRemaining[h] >= 0 /\ anomalyRemaining[h] <= DurationOf(anomaly[h]))
  /\ [][\A h \in Simulators :
          i'[h] # i[h] =>
            /\ anomalyRemaining[h] > 0 =>
                 /\ anomalyRemaining'[h] = anomalyRemaining[h] - 1
                 /\ anomaly'[h] = anomaly[h]
                 /\ anomalyTicks'[h] = anomalyTicks[h] + 1
            /\ (anomaly'[h] # anomaly[h] \/ anomalyRemaining'[h] > anomalyRemaining[h]) =>
                 /\ anomalyRemaining[h] = 0
                 /\ anomalyRemaining'[h] = DurationOf(anomaly'[h])
                 /\ anomalyTicks'[h] = 1]_vars

\* an active anomaly has been counted down to its last tick
C2_Witness ==
  \E h \in Simulators :
    anomalyTicks[h] >= 3 /\ anomalyRemaining[h] = 0 /\ anomaly[h].type = "powerSurge"

\* C3: on every tick on which an outage is in effect the reading reports an
\* active power of exactly 0.
C3_OutageZero ==
  \A h \in Simulators :
    (Ticked(h) /\ locals[h].anomaly.type = "outage") =>
      reading[h].global_active_power = 0

\* an outage in its second tick or later zeroes a reading that was positive
C3_Witness ==
  \E h \in Simulators :
    /\ Ticked(h)
    /\ locals[h].anomaly.type = "outage"
    /\ anomalyTicks[h] >= 2
    /\ locals[h].plain.global_active_power > 0
    /\ reading[h].anomaly_type = "outage"

\* C4 as stated: every reading reports at least half the baseline, whatever
\* the anomaly state.
C4_FloorAlways ==
  \A h \in Simulators :
    Ticked(h) => reading[h].global_active_power >= FloorOf(h)

\* C4 (amended): every reading on which no anomaly with a power multiplier
\* below 1 is in effect reports at least half the baseline of its profile.
C4_FloorUnlessReduced ==
  \A h \in Simulators :
    (Ticked(h) /\ ~ Reducing(locals[h].anomaly)) =>
      reading[h].global_active_power >= FloorOf(h)

\* the floor has acted: the reading reports exactly half the baseline
C4_Witness ==
  \E h \in Simulators :
    /\ Ticked(h)
    /\ ~ Reducing(locals[h].anomaly)
    /\ reading[h].global_active_power = FloorOf(h)

\* C5: after a tick at time t the map holds no activation that ended at or
\* before t, and the occasional load of the tick is the sum of the power of
\* exactly the activations (of the map as the tick found and extended it) that
\* end after t.
C5_ExpiredRemoved ==
  \A h \in Simulators :
    Ticked(h) =>
      LET t     == locals[h].timestamp
          live  == { n \in DOMAIN locals[h].started : locals[h].started[n].endTime > t }
      IN  /\ \A n \in DOMAIN activeAppliances[h] : activeAppliances[h][n].endTime > t
          /\ DOMAIN activeAppliances[h] = live
          /\ locals[h].activeLoad =
               SumOver(live, [ n \in live |-> locals[h].started[n].power ])

\* a tick removed an activation that had ended and summed the remaining ones
C5_Witness ==
  \E h \in Simulators :
    /\ Ticked(h)
    /\ DOMAIN locals[h].started # DOMAIN activeAppliances[h]
    /\ locals[h].activeLoad > 0

\* C6: an activation started at t with duration d is in the map, unchanged,
\* after every tick in [t, t+d) and counted in that tick's load, and is gone
\* after the tick at t+d; an appliance in the map is never started again.
C6_Activation ==
  /\ [](\A h \in Simulators :
          Ticked(h) =>
            \A n \in DOMAIN activeAppliances[h] :
              LET a == activeAppliances[h][n]
              IN  /\ a.endTime - occasionalAppliances[n].duration <= locals[h].timestamp
                  /\ locals[h].timestamp < a.endTime
                  /\ a.power = occasionalAppliances[n].power
                  /\ locals[h].activeLoad >= a.power)
  /\ [][\A h \in Simulators :
          i'[h] # i[h] =>
            \A n \in DOMAIN activeAppliances[h] :
              IF currentTime[h] < activeAppliances[h][n].endTime
              THEN /\ n \in DOMAIN activeAppliances'[h]
                   /\ activeAppliances'[h][n] = activeAppliances[h][n]
              ELSE n \notin DOMAIN activeAppliances'[h]]_vars

\* an activation has reached the last tick of its duration
C6_Witness ==
  \E h \in Simulators :
    /\ Ticked(h)
    /\ "microwave" \in DOMAIN activeAppliances[h]
    /\ activeAppliances[h]["microwave"].endTime = locals[h].timestamp + 1

\* C7: getSeasonalMultiplier returns one of the four configured multipliers,
\* and the summer one for every timestamp in May to July.
C7_Seasonal ==
  \A h \in Simulators :
    Ticked(h) =>
      /\ locals[h].seasonalMultiplier \in
           { seasonalMultipliers[s] : s \in DOMAIN seasonalMultipliers }
      /\ getMonth(locals[h].timestamp) \in 4..6 =>
           locals[h].seasonalMultiplier = seasonalMultipliers.summer

\* a weekend reading in the peak cooling season
C7_Witness ==
  \E h \in Simulators :
    /\ Ticked(h)
    /\ getMonth(locals[h].timestamp) = 6
    /\ getDay(locals[h].timestamp) \in {0, 6}
    /\ profile[h] = "vacation"
    /\ locals[h].seasonalMultiplier = seasonalMultipliers.summer

\* the start probability of appliance n on the last tick of h was multiplied by k
Boosted(h, n, k) ==
  locals[h].adjusted[n] =
    k * occasionalAppliances[n].probability * locals[h].timeMultiplier * 5

\* C8: the air conditioner's boost applies exactly when the summer multiplier
\* is selected, the space heater's exactly when the winter multiplier is, and
\* never both.
C8_Boosts ==
  \A h \in Simulators :
    Ticked(h) =>
      /\ Boosted(h, "air_conditioner", 3)
           <=> locals[h].seasonalMultiplier = seasonalMultipliers.summer
      /\ Boosted(h, "air_conditioner", 1)
           <=> locals[h].seasonalMultiplier # seasonalMultipliers.summer
      /\ Boosted(h, "space_heater", 4)
           <=> locals[h].seasonalMultiplier = seasonalMultipliers.winter
      /\ Boosted(h, "space_heater", 1)
           <=> locals[h].seasonalMultiplier # seasonalMultipliers.winter
      /\ ~ (Boosted(h, "air_conditioner", 3) /\ Boosted(h, "space_heater", 4))

\* a winter tick boosts the heater and not the air conditioner
C8_Witness ==
  \E h \in Simulators :
    /\ Ticked(h)
    /\ getMonth(locals[h].timestamp) = 0
    /\ Boosted(h, "space_heater", 4)
    /\ Boosted(h, "air_conditioner", 1)

\* C10: a tick of one simulator leaves the fields of every other simulator
\* unchanged.
C10_Frame ==
  [][\A h \in Simulators :
       i'[h] # i[h] =>
         \A g \in Simulators \ {h} :
           /\ energy_kwh'[g] = energy_kwh[g]
           /\ activeAppliances'[g] = activeAppliances[g]
           /\ anomaly'[g] = anomaly[g]
           /\ anomalyRemaining'[g] = anomalyRemaining[g]]_vars

\* both simulators have ticked and their fields differ
C10_Witness ==
  \E h, g \in Simulators :
    /\ h # g
    /\ i[h] = count[h] /\ i[g] = count[g]
    /\ energy_kwh[h] # energy_kwh[g]
    /\ anomalyRemaining[h] > 0 /\ anomalyRemaining[g] = 0
    /\ activeAppliances[h] # << >> /\ activeAppliances[g] = << >>

\* C11: no sequence of ticks, on any number of simulators, changes the shared
\* configuration tables; in particular the anomaly definitions stay as loaded
\* when anomalies are activated and applied.
C11_ConfigFrozen == config = Config

\* both simulators have activated and applied an anomaly, of different kinds
C11_Witness ==
  \E h, g \in Simulators :
    /\ anomalyTicks[h] >= 1 /\ anomalyTicks[g] >= 1
    /\ anomaly[h].type # anomaly[g].type
    /\ Has(reading[h], "anomaly_type") /\ Has(reading[g], "anomaly_type")

\* C12: the failure of one tick's computation is contained: the run goes on
\* and processes all its ticks, so a run that has thrown has still produced
\* every reading it was asked for.
C12_FailureContained ==
  \A h \in Simulators :
    status[h] = "rejected" => i[h] = count[h]

\* the Date that the getters of this host read as Nepal's wall clock at the
\* instant the last reading of h stands for
NepalTimeOfReading(h) ==
  startInstant[h] + (i[h] - 1) * (simulation.sampleInterval \div 60) + NepalOffset

\* C13: the hour, weekday and month that select the multipliers of a reading
\* are those of Nepal's local time at the instant the reading stands for, on
\* every host and for both ways of starting the run.
C13_NepalLocalTime ==
  \A h \in Simulators :
    Ticked(h) =>
      /\ getHours(locals[h].timestamp) = getHours(NepalTimeOfReading(h))
      /\ getDay(locals[h].timestamp) = getDay(NepalTimeOfReading(h))
      /\ getMonth(locals[h].timestamp) = getMonth(NepalTimeOfReading(h))

\* the energy that the power of a reading of h (in 0.01 W) amounts to over one
\* sample interval, in the unit of energy_kwh
EnergyOfReported(r) == r.global_active_power * 80

\* C20: on every tick the cumulative energy of the simulator grows by the
\* active power that the reading reports times the sample interval, within the
\* rounding of the reported power (half of 0.1 W), also when an anomaly scales
\* the reading.
C20_EnergyOfReportedPower ==
  [][ \A h \in Simulators :
        i'[h] = i[h] + 1 =>
          LET grown == energy_kwh'[h] - energy_kwh[h]
          IN  /\ grown - EnergyOfReported(reading'[h]) <= 80 * 5
              /\ EnergyOfReported(reading'[h]) - grown <= 80 * 5 ]_vars

\* C14: for every user the stored power state satisfies total = background +
\* interactive, after every simulation tick and every toggle.
C14_TotalIsSum ==
  \A u \in DOMAIN powerState :
    powerState[u].total_power_kw =
      powerState[u].background_power_kw + powerState[u].interactive_power_kw

\* a tick and a toggle have both written the state of one user
C14_Witness ==
  \E u \in DOMAIN powerState :
    /\ toggleRequest[u] = NoRequest
    /\ powerState[u].background_power_kw > 0
    /\ powerState[u].interactive_power_kw > 0
    /\ powerState[u].total_power_kw > powerState[u].background_power_kw

\* C15: when no toggle is in progress, interactive power is the sum of the
\* ratings of exactly the appliances that are on, whatever the order of the
\* toggles and also after a toggle to the state an appliance already had.
C15_InteractiveIsSumOfOn ==
  \A u \in DOMAIN powerState :
    toggleRequest[u] = NoRequest =>
      powerState[u].interactive_power_kw = calculateInteractivePower(u)

\* C16: a tick and a toggle of one user are serialized: once the toggle has
\* finished, the state holds the background power that the last tick wrote
\* and the sum as total.
C16_NoLostUpdate ==
  \A u \in DOMAIN powerState :
    toggleRequest[u] = NoRequest =>
      /\ powerState[u].background_power_kw = lastBackground[u]
      /\ powerState[u].total_power_kw =
           lastBackground[u] + powerState[u].interactive_power_kw

ScoreIs(score, percent) == score.num = percent * score.den

\* C18: a compare that succeeds records score = (forecast - actual) / forecast
\* * 100, positive exactly when the user consumed less than the forecast and
\* negative exactly when more (100 and 80 give 20, 100 and 120 give -20); with
\* a forecast that is zero or absent compare fails with InsufficientData and no
\* score is recorded.
C18_ScoreOfForecast ==
  \A u \in DOMAIN outcome :
    outcome[u] # "not compared" =>
      LET forecast_kwh == ForecastKwh(forecasts[u])
          actual_kwh   == actuals[u]
      IN  IF forecasts[u] = << >> \/ forecast_kwh = 0
          THEN outcome[u] = "InsufficientData" /\ ~scores[u].recorded
          ELSE coverage[u] =>
                 /\ outcome[u] = "ok" /\ scores[u].recorded
                 /\ scores[u].score.num * forecast_kwh
                      = (forecast_kwh - actual_kwh) * 100 * scores[u].score.den
                 /\ scores[u].score.den > 0
                 /\ (scores[u].score.num > 0) <=> (actual_kwh < forecast_kwh)
                 /\ (scores[u].score.num < 0) <=> (actual_kwh > forecast_kwh)
                 /\ (forecast_kwh = 100 /\ actual_kwh = 80) => ScoreIs(scores[u].score, 20)
                 /\ (forecast_kwh = 100 /\ actual_kwh = 120) => ScoreIs(scores[u].score, 0 - 20)

\* one user has saved 20 percent, one has exceeded the forecast by 20 percent
\* and one has been refused for a forecast of zero or none
C18_Witness ==
  \E u, v, w \in DOMAIN outcome :
    /\ scores[u].recorded /\ ScoreIs(scores[u].score, 20) /\ actuals[u] = 80
    /\ scores[v].recorded /\ ScoreIs(scores[v].score, 0 - 20) /\ actuals[v] = 120
    /\ outcome[w] = "InsufficientData" /\ coverage[w] /\ ~scores[w].recorded

\* entry e comes before entry g: higher score, then lower actual_kwh, then
\* lower household id
ComesBefore(e, g) ==
  \/ e.score.num * g.score.den > g.score.num * e.score.den
  \/ /\ e.score.num * g.score.den = g.score.num * e.score.den
     /\ \/ e.actual_kwh < g.actual_kwh
        \/ e.actual_kwh = g.actual_kwh /\ IdOrder(e.user_id) < IdOrder(g.user_id)

\* C19: the leaderboard lists the users by score descending, then by lower
\* actual_kwh, then by id, with the ranks 1..n in that order, and it is what
\* rank gives for the scores it was computed from.
C19_RankOrder ==
  /\ \A k \in DOMAIN leaderboard : leaderboard[k].rank_position = k
  /\ \A j, k \in DOMAIN leaderboard :
       j < k => ComesBefore(leaderboard[j], leaderboard[k])

\* the kinds of anomaly that scale the voltage only, and the active power only
VoltageOnly == { "voltageSpike", "voltageDip" }

PowerOnly == { "powerSurge", "brownout", "outage" }

\* C25: an anomaly changes only the quantity of its kind: a voltage-only
\* anomaly leaves the active power of the reading as computed, a power-only
\* anomaly leaves its voltage as computed, and without an anomaly the reading
\* is returned as computed.
C25_AnomalyFrame ==
  \A h \in Simulators :
    Ticked(h) =>
      /\ locals[h].anomaly = NullAnomaly => reading[h] = locals[h].plain
      /\ locals[h].anomaly.type \in VoltageOnly =>
           reading[h].global_active_power = locals[h].plain.global_active_power
      /\ locals[h].anomaly.type \in PowerOnly =>
           reading[h].voltage = locals[h].plain.voltage

\* a voltage spike has scaled the voltage of a reading and a power surge the
\* active power of another
C25_Witness ==
  \E h, g \in Simulators :
    /\ Ticked(h) /\ Ticked(g)
    /\ locals[h].anomaly.type = "voltageSpike"
    /\ reading[h].voltage > locals[h].plain.voltage
    /\ locals[g].anomaly.type = "powerSurge"
    /\ reading[g].global_active_power > locals[g].plain.global_active_power

\* the cycle length, in minutes, of the cyclical appliance of the profile of h
CycleOf(h) == BaseConfigOf(profile[h]).appliances.refrigerator.cycle

\* C26: the cyclical appliance of a profile with cycle length c is on at a
\* tick if and only if it is on c ticks of one minute later, also across the
\* hour.
C26_CyclePeriodic ==
  \A h \in Simulators :
    \A k \in DOMAIN cyclicalLoads[h] :
      k + CycleOf(h) \in DOMAIN cyclicalLoads[h] =>
        (cyclicalLoads[h][k] > 0 <=> cyclicalLoads[h][k + CycleOf(h)] > 0)

\* C21: the timestamps of the readings of a run grow by exactly the sample
\* interval from each reading to the next, also from the last reading of a
\* batch to the first of the next batch.
C21_TimestampsSpaced ==
  \A h \in Simulators :
    \A k \in DOMAIN timestamps[h] :
      k + 1 \in DOMAIN timestamps[h] =>
        timestamps[h][k + 1] - timestamps[h][k] = simulation.sampleInterval \div 60

\* a run of three batches has completed, the last batch shorter than the others
C21_Witness ==
  \E h \in Simulators :
    /\ phase[h] = "completed"
    /\ Len(sent[h]) = 2
    /\ sent[h][1].length = 3 /\ sent[h][2].length = 1
    /\ Len(timestamps[h]) = 4

\* the number of readings in the batches sent so far
SentReadings(h) ==
  SumOver(DOMAIN sent[h], [ k \in DOMAIN sent[h] |-> sent[h][k].length ])

\* the run of h has completed after ceil(duration / batchSize) batches of 1
\* to batchSize readings that hold `duration` readings together
CompletedExactly(h) ==
  /\ phase[h] = "completed"
  /\ Len(sent[h]) = Ceil(duration[h], batchSize[h])
  /\ \A k \in DOMAIN sent[h] :
       sent[h][k].length >= 1 /\ sent[h][k].length <= batchSize[h]
  /\ SentReadings(h) = duration[h]

\* C27: for all positive duration and batchSize the run terminates, after
\* exactly ceil(duration / batchSize) batches, each of 1 to batchSize readings,
\* with `duration` readings in all.
C27_Terminates == <>[](\A h \in Simulators : CompletedExactly(h))

\* a run whose duration is no multiple of the batch size has completed
C27_Witness ==
  \E h \in Simulators :
    /\ CompletedExactly(h)
    /\ duration[h] = 4 /\ batchSize[h] = 3
    /\ Len(sent[h]) = 2

\* the sum of the Total Energy figures of the batches sent so far
SentEnergy(h) ==
  SumOver(DOMAIN sent[h], [ k \in DOMAIN sent[h] |-> sent[h][k].totalEnergy ])

\* C30: the Total Energy figures of the batches of a completed run add up to
\* the final cumulative energy of the simulator, within the rounding of the
\* readings' energy_kwh (one unit of 0.0001 kWh per batch).
C30_BatchEnergyAddsUp ==
  \A h \in Simulators :
    phase[h] = "completed" =>
      /\ SentEnergy(h) - RoundDiv(energy_kwh[h], 48000) <= Len(sent[h])
      /\ RoundDiv(energy_kwh[h], 48000) - SentEnergy(h) <= Len(sent[h])

\* the current, in 0.0001 A, of the reported active power at the reported
\* voltage of a reading
IntensityOfReported(r) ==
  MulDiv((r.global_active_power * 2) \div 5, 25000, r.voltage \div 10)

\* the reactive power, in 0.0001 kW, of the reported active power of a reading
ReactiveOfReported(r) ==
  ScaleDiv(r.global_active_power, TanAcos[electrical.powerFactor], 100, 1000)

\* a and b differ by at most d
Within(a, b, d) == a - b <= d /\ b - a <= d

\* C29: in every reading global_intensity is the reported active power
\* divided by the reported voltage (within 0.002 A) and global_reactive_power
\* is the reported active power times tan(acos(powerFactor)) (within 0.0002
\* kW), also when an anomaly scales the reading.
C29_DerivedConsistent ==
  \A h \in Simulators :
    Ticked(h) =>
      /\ Within(reading[h].global_intensity, IntensityOfReported(reading[h]), 20)
      /\ Within(reading[h].global_reactive_power, ReactiveOfReported(reading[h]), 2)

\* the requests for GET /me that the router has been handed
MeRequests ==
  { r \in Requests : pc[r] # "none" /\ Matches(request[r], "GET", "me") }

\* the request carries a Bearer token that is signed with JWT_SECRET, has
\* not expired and names a user of the users table
Authorized(r) ==
  LET a == request[r].authorization
  IN  /\ a.scheme = "Bearer"
      /\ Has(a, "token")
      /\ a.token.secret = JWT_SECRET
      /\ ~a.token.expired
      /\ \E u \in users_table : u.id = a.token.id

\* userAuth has answered the request with 401
Refused(r) ==
  \E k \in DOMAIN responses[r] :
    responses[r][k].status = 401 /\ responses[r][k].by = "userAuth"

\* C22: for a request for GET /me, getMe runs only if the request carried a
\* Bearer token that verified and whose user exists; a request without one is
\* answered 401 by userAuth and getMe is not invoked; every request that has
\* been handled got one response, from getMe or the 401 of userAuth, not both.
C22_AuthGuards ==
  \A r \in MeRequests :
    /\ "getMe" \in invoked[r] => Authorized(r)
    /\ pc[r] # "done" => responses[r] = << >> /\ invoked[r] = {}
    /\ pc[r] = "done" =>
         /\ Len(responses[r]) = 1
         /\ ("getMe" \in invoked[r]) # Refused(r)
         /\ "getMe" \in invoked[r] => responses[r][1].by = "getMe"
         /\ ~Authorized(r) => Refused(r)

\* one request for GET /me has reached getMe and another one was refused
\* because its token, though verified, names no user
C22_Witness ==
  \E r, o \in MeRequests :
    /\ pc[r] = "done" /\ "getMe" \in invoked[r]
    /\ pc[o] = "done" /\ Refused(o) /\ responses[o][1].error = "User not found"

\* the register requests with this email that have been answered
Registrations(e) ==
  { r \in Requests : /\ pc[r] = "done"
                     /\ Matches(request[r], "POST", "register")
                     /\ request[r].body.email = e }

\* C28: of the register requests with one email at most one creates a user
\* and answers 201, every other one answers 400, and no email has two users.
C28_OneRegistration ==
  \A e \in Emails :
    /\ Cardinality(findByEmail(e)) <= 1
    /\ Cardinality({ r \in Registrations(e) : responses[r][1].status = 201 }) <= 1
    /\ \A r \in Registrations(e) : responses[r][1].status \in { 201, 400 }

\* C23: every request the app receives eventually has exactly one response.
C23_EveryRequestAnswered ==
  /\ [](\A r \in Requests : Len(responses[r]) <= 1)
  /\ \A r \in Requests : (pc[r] # "none") ~> (Len(responses[r]) = 1)

\* C24: a process that has exited had stopped accepting connections and has
\* no connection and no client of the pool open, and every SIGTERM or SIGINT
\* is followed by the exit of the process.
C24_GracefulShutdown ==
  /\ [](exited => ~listening /\ connections = 0 /\ clients = 0)
  /\ (signal # "none") ~> exited

====
